---- MODULE Spec2Model ----
(***************************************************************************)
(* CircusCircus forum: the login-attempt guard (LoginAttempt), the         *)
(* credential validators (AuthValidator, forum/auth.py) and the routes     *)
(* that use them (login, register, edit_profile).                          *)
(*                                                                         *)
(* Text is a sequence of one-character strings, so that length, character  *)
(* classes, strip() and the regular expressions are computed as the code   *)
(* computes them.  Time is counted in ticks, TicksPerHour to the hour.     *)
(***************************************************************************)
EXTENDS Integers, Sequences, FiniteSets, TLC

\* ------------------------------------------------------------------ bounds
\* Records the ledger may hold under Spec / SpecFault (the login route).
MaxLedger == 6
\* Records the ledger may hold under SpecGuard (LoginAttempt called freely).
GuardLedger == 3
\* Records the ledger may hold under SpecWindow (one pair driven to the threshold).
WindowLedger == 6
\* The clock stops at MaxTime ticks.
MaxTime == 1
\* Resolution of the clock.
TicksPerHour == 1
\* Accounts the store may hold under SpecReg.
MaxUsers == 2
\* Login requests in flight together under SpecRace.
MaxRequests == 6
\* Logins served under SpecAdmin.
AdminLedger == 2
\* Rows the auth_tokens table may hold under SpecToken.
MaxTokens == 2

\* ------------------------------------------------------- program constants
\* LoginAttempt.is_rate_limited(username, ip_address, max_attempts=5, hours=1)
max_attempts == 5
default_hours == 1

\* ------------------------------------------------------------------- text
Lower == {"a","b","c","d","e","f","g","h","i","j","k","l","m",
          "n","o","p","q","r","s","t","u","v","w","x","y","z"}
Upper == {"A","B","C","D","E","F","G","H","I","J","K","L","M",
          "N","O","P","Q","R","S","T","U","V","W","X","Y","Z"}
Digits == {"0","1","2","3","4","5","6","7","8","9"}
Letters == Lower \cup Upper
\* str.strip() with no argument removes these.
Whitespace == {" ", "\t", "\n", "\r"}

RECURSIVE lstrip(_)
lstrip(s) == IF s # <<>> /\ Head(s) \in Whitespace THEN lstrip(Tail(s)) ELSE s

RECURSIVE rstrip(_)
rstrip(s) ==
  IF s # <<>> /\ s[Len(s)] \in Whitespace THEN rstrip(SubSeq(s, 1, Len(s) - 1)) ELSE s

strip(s) == rstrip(lstrip(s))

AllIn(s, chars) == \A i \in DOMAIN s : s[i] \in chars

\* What Python's $ accepts as the end of the text: the end itself, or the
\* place just before one final newline.
Bodies(s) ==
  {s} \cup (IF s # <<>> /\ s[Len(s)] = "\n" THEN {SubSeq(s, 1, Len(s) - 1)} ELSE {})

\* re.compile(r"^[chars]{lo,hi}$").match(s)
MatchClassRange(s, chars, lo, hi) ==
  \E b \in Bodies(s) : Len(b) >= lo /\ Len(b) <= hi /\ AllIn(b, chars)

None == "None"
\* None, where a User row is expected.
NoUser == [id |-> 0]

\* -------------------------------------------------------------- the state
VARIABLES
  users,    \* the user table: a sequence of rows, users[i].id = i
  ledger,   \* the login_attempts table, in insertion (id) order
  now,      \* datetime.utcnow(), in ticks
  session,  \* per client: the id of the logged-in user, or 0
  resp,     \* the last response a route produced
  reg,      \* per worker: the request it is in the middle of
  tokens    \* the auth_tokens table, in insertion (id) order

vars == <<users, ledger, now, session, resp, reg, tokens>>

\* ---------------------------------------------------------- LoginAttempt
\* LoginAttempt.__init__
LoginAttempt(username, ip_address, successful, user_agent) ==
  [username |-> username, ip_address |-> ip_address, successful |-> successful,
   attempted_at |-> now, user_agent |-> user_agent]

\* Mutant: a successful attempt clears the pair's earlier failures.
log_attempt_resetting(username, ip_address, successful, user_agent) ==
  LET Kept(r) == ~(successful /\ r.username = username
                   /\ r.ip_address = ip_address /\ ~r.successful)
  IN ledger' = Append(SelectSeq(ledger, Kept),
                      [username |-> username, ip_address |-> ip_address,
                       successful |-> successful, attempted_at |-> now,
                       user_agent |-> user_agent])

\* Mutant: the successful argument is dropped and the column default used.
log_attempt_default_flag(username, ip_address, successful, user_agent) ==
  ledger' = Append(ledger,
                   [username |-> username, ip_address |-> ip_address,
                    successful |-> FALSE, attempted_at |-> now,
                    user_agent |-> user_agent])

\* Mutant: one row per pair, overwritten by the pair's next attempt.
log_attempt_upsert(username, ip_address, successful, user_agent) ==
  LET row == [username |-> username, ip_address |-> ip_address,
              successful |-> successful, attempted_at |-> now,
              user_agent |-> user_agent]
      Same(i) == ledger[i].username = username /\ ledger[i].ip_address = ip_address
  IN IF \E i \in DOMAIN ledger : Same(i)
     THEN ledger' = [i \in DOMAIN ledger |-> IF Same(i) THEN row ELSE ledger[i]]
     ELSE ledger' = Append(ledger, row)

\* LoginAttempt.log_attempt: db.session.add(attempt); db.session.commit()
log_attempt(username, ip_address, successful, user_agent) ==
  ledger' = Append(ledger, LoginAttempt(username, ip_address, successful, user_agent))

\* Mutant: the cutoff itself is inside the window (>= for >).
get_failed_attempts_inclusive(username, ip_address, hours) ==
  LET cutoff_time == now - hours * TicksPerHour
      Match(r) == /\ r.username = username
                  /\ r.ip_address = ip_address
                  /\ r.successful = FALSE
                  /\ r.attempted_at >= cutoff_time
  IN Len(SelectSeq(ledger, Match))

\* Mutant: no cutoff, every failure ever recorded counts.
get_failed_attempts_ever(username, ip_address, hours) ==
  LET Match(r) == /\ r.username = username
                  /\ r.ip_address = ip_address
                  /\ r.successful = FALSE
  IN Len(SelectSeq(ledger, Match))


\* Mutant: the failures of a username are counted whatever address they
\* came from.
get_failed_attempts_any_address(username, ip_address, hours) ==
  LET cutoff_time == now - hours * TicksPerHour
      Match(r) == /\ r.username = username
                  /\ r.successful = FALSE
                  /\ r.attempted_at > cutoff_time
  IN Len(SelectSeq(ledger, Match))

\* LoginAttempt.get_failed_attempts
get_failed_attempts(username, ip_address, hours) ==
  LET cutoff_time == now - hours * TicksPerHour
      Match(r) == /\ r.username = username
                  /\ r.ip_address = ip_address
                  /\ r.successful = FALSE
                  /\ r.attempted_at > cutoff_time
  IN Len(SelectSeq(ledger, Match))

\* Mutant: the threshold itself is still allowed (> for >=).
is_rate_limited_strict(username, ip_address, max, hours) ==
  get_failed_attempts(username, ip_address, hours) > max

\* LoginAttempt.is_rate_limited
is_rate_limited(username, ip_address, max, hours) ==
  get_failed_attempts(username, ip_address, hours) >= max

\* ------------------------------------------------------------ User rows
UpperSeq == <<"A","B","C","D","E","F","G","H","I","J","K","L","M",
              "N","O","P","Q","R","S","T","U","V","W","X","Y","Z">>
LowerSeq == <<"a","b","c","d","e","f","g","h","i","j","k","l","m",
              "n","o","p","q","r","s","t","u","v","w","x","y","z">>

\* str.lower()
lower(s) ==
  [i \in DOMAIN s |->
     IF s[i] \in Upper
     THEN LowerSeq[CHOOSE k \in DOMAIN UpperSeq : UpperSeq[k] = s[i]]
     ELSE s[i]]


\* Mutant: a digest that reads only the first five characters of the
\* password.
Digest_truncated(salt, password) ==
  <<"pbkdf2", salt, SubSeq(password, 1, IF Len(password) < 5 THEN Len(password) ELSE 5)>>

\* werkzeug's salted one-way hash: the digest is a function of salt and
\* password that nothing inverts; only equality of digests is ever used.
Digest(salt, password) == <<"pbkdf2", salt, password>>
generate_password_hash(password, salt) ==
  [salt |-> salt, digest |-> Digest(salt, password)]
check_password_hash(pwhash, password) ==
  pwhash.digest = Digest(pwhash.salt, password)


\* Mutant: the username is compared with 'admin' as typed, not lower-cased.
create_user_case_sensitive(email, username, password, salt) ==
  [email |-> email, username |-> username,
   password_hash |-> generate_password_hash(password, salt),
   admin |-> (username = <<"a","d","m","i","n">>),
   is_active |-> TRUE, last_seen |-> now]

\* User.__init__ followed by AuthUser.create_user's defaults; the id is
\* given by the table on insert.
create_user(email, username, password, salt) ==
  [email |-> email, username |-> username,
   password_hash |-> generate_password_hash(password, salt),
   admin |-> (lower(username) = <<"a","d","m","i","n">>),
   is_active |-> TRUE, last_seen |-> now]

\* db.session.add(user) on a table with an autoincrement primary key.
WithId(row, id) ==
  [id |-> id, email |-> row.email, username |-> row.username,
   password_hash |-> row.password_hash, admin |-> row.admin,
   is_active |-> row.is_active, last_seen |-> row.last_seen]

\* User.check_password
check_password(user, password) == check_password_hash(user.password_hash, password)

\* User.query.filter_by(username=username).first()
find_by_username(username) ==
  IF \E i \in DOMAIN users : users[i].username = username
  THEN users[CHOOSE i \in DOMAIN users :
               /\ users[i].username = username
               /\ \A j \in DOMAIN users : users[j].username = username => i <= j]
  ELSE NoUser

\* User.query.filter_by(email=email).first()
find_by_email(email) ==
  IF \E i \in DOMAIN users : users[i].email = email
  THEN users[CHOOSE i \in DOMAIN users :
               /\ users[i].email = email
               /\ \A j \in DOMAIN users : users[j].email = email => i <= j]
  ELSE NoUser

\* ------------------------------------------------ AuthValidator.validate_login
\* Mutant: a message of its own for a username that matches no account.
validate_login_naming_unknown(username, password) ==
  IF username = <<>> \/ password = <<>>
  THEN [is_valid |-> FALSE, error_message |-> "Username and password are required",
        user |-> NoUser]
  ELSE LET user == find_by_username(username)
       IN IF user = NoUser
          THEN [is_valid |-> FALSE, error_message |-> "Unknown username", user |-> NoUser]
          ELSE IF check_password(user, password)
          THEN IF ~user.is_active
               THEN [is_valid |-> FALSE, error_message |-> "Account is deactivated",
                     user |-> NoUser]
               ELSE [is_valid |-> TRUE, error_message |-> None, user |-> user]
          ELSE [is_valid |-> FALSE, error_message |-> "Invalid username or password",
                user |-> NoUser]


\* Mutant: the active flag is not looked at.
validate_login_ignoring_active(username, password) ==
  IF username = <<>> \/ password = <<>>
  THEN [is_valid |-> FALSE, error_message |-> "Username and password are required",
        user |-> NoUser]
  ELSE LET user == find_by_username(username)
       IN IF user # NoUser /\ check_password(user, password)
          THEN [is_valid |-> TRUE, error_message |-> None, user |-> user]
          ELSE [is_valid |-> FALSE, error_message |-> "Invalid username or password",
                user |-> NoUser]

\* AuthValidator.validate_login: (is_valid, error_message, user)
validate_login(username, password) ==
  IF username = <<>> \/ password = <<>>
  THEN [is_valid |-> FALSE, error_message |-> "Username and password are required",
        user |-> NoUser]
  ELSE LET user == find_by_username(username)
       IN IF user # NoUser /\ check_password(user, password)
          THEN IF ~user.is_active
               THEN [is_valid |-> FALSE, error_message |-> "Account is deactivated",
                     user |-> NoUser]
               ELSE [is_valid |-> TRUE, error_message |-> None, user |-> user]
          ELSE [is_valid |-> FALSE, error_message |-> "Invalid username or password",
                user |-> NoUser]

\* ------------------------------------------------------------ input sets
S_admin == <<"a","d","m","i","n">>
S_nouser == <<"n","o","u","s","e","r">>
\* A username typed with a leading blank and a trailing newline.
S_admin_padded == <<" ">> \o S_admin \o <<"\n">>

\* create_demo_users.py
E_admin == <<"a","d","m","i","n","@","c","i","r","c","u","s","c","i","r","c","u","s",".","c","o","m">>
S_testuser1 == <<"t","e","s","t","u","s","e","r","1">>
E_testuser1 == <<"u","s","e","r","1","@","e","x","a","m","p","l","e",".","c","o","m">>
P_admin == <<"a","d","m","i","n","1","2","3","!">>
P_testuser1 == <<"p","a","s","s","w","o","r","d","1","2","3","!">>
S_testuser2 == <<"t","e","s","t","u","s","e","r","2">>
E_testuser2 == <<"u","s","e","r","2","@","e","x","a","m","p","l","e",".","c","o","m">>
P_testuser2 == <<"m","y","p","a","s","s","w","o","r","d","4","5","6","!">>
\* A well-formed password that belongs to no account.
P_wrong == <<"w","r","o","n","g","1">>

\* request.remote_addr of the clients, and their User-Agent header.
IPs == {"10.0.0.1", "10.0.0.2"}
Agents == {"curl"}
\* The hours arguments tried on the guard's queries.
Hours == {1, 2}

ClientIds == {"c1"}
Procs == {"w1", "w2"}
NoResp == [outcome |-> "none", flash |-> <<>>, lookup |-> FALSE]
Idle == [pc |-> "idle"]

\* ---------------------------------------------------------------- time
\* The clock that datetime.utcnow() reads.
Tick ==
  /\ now < MaxTime
  /\ now' = now + 1
  /\ UNCHANGED <<users, ledger, session, resp, reg, tokens>>

\* ------------------------------------- the guard's operations, called freely
InitGuard ==
  /\ users = <<>>
  /\ ledger = <<>>
  /\ now = 0
  /\ tokens = <<>>
  /\ session = [c \in ClientIds |-> 0]
  /\ resp = NoResp
  /\ reg = [w \in Procs |-> Idle]

\* SpecGuard: any username, any address, either outcome.
GuardLog(username, ip_address, successful, user_agent) ==
  /\ Len(ledger) < GuardLedger
  /\ log_attempt(username, ip_address, successful, user_agent)
  /\ UNCHANGED <<users, now, tokens, session, resp, reg>>

NextGuard ==
  \/ \E u \in {S_admin, S_nouser}, ip \in IPs, s \in BOOLEAN, a \in Agents :
       GuardLog(u, ip, s, a)
  \/ Tick

SpecGuard == InitGuard /\ [][NextGuard]_vars

\* SpecWindow: one address, enough records to cross the route's threshold.
WindowIP == "10.0.0.1"
WindowInputs == {<<S_admin, FALSE>>, <<S_admin, TRUE>>, <<S_nouser, FALSE>>}

WindowLog(username, successful, user_agent) ==
  /\ Len(ledger) < WindowLedger
  /\ log_attempt(username, WindowIP, successful, user_agent)
  /\ UNCHANGED <<users, now, tokens, session, resp, reg>>

NextWindow ==
  \/ \E k \in WindowInputs, a \in Agents : WindowLog(k[1], k[2], a)
  \/ Tick

SpecWindow == InitGuard /\ [][NextWindow]_vars

\* Time does not stop: the clock ticks as long as the model lets it.
FairSpecWindow == SpecWindow /\ WF_vars(Tick)

\* ------------------------------------------------------------------ C2
\* The rows the claim counts: failures of exactly this pair, strictly later
\* than now minus the window.
RecentFailureRows(username, ip_address, hours) ==
  {i \in DOMAIN ledger :
     /\ ledger[i].username = username
     /\ ledger[i].ip_address = ip_address
     /\ ~ledger[i].successful
     /\ now - ledger[i].attempted_at < hours * TicksPerHour}

\* C2: for every ledger, pair, maxAttempts and windowHours, is_rate_limited is
\* true exactly when at least maxAttempts failed records of that exact pair
\* are strictly younger than the window.
C2_RateLimitedIffThreshold ==
  \A u \in {S_admin, S_nouser}, ip \in IPs, m \in 0..(GuardLedger + 1), h \in Hours :
    is_rate_limited(u, ip, m, h) <=> Cardinality(RecentFailureRows(u, ip, h)) >= m

\* A pair over a threshold of 2 while the ledger also holds a failure of the
\* same pair that has aged out of the one-hour window.
C2_Witness ==
  /\ is_rate_limited(S_admin, "10.0.0.1", 2, 1)
  /\ \E i \in DOMAIN ledger :
       /\ ledger[i].username = S_admin /\ ledger[i].ip_address = "10.0.0.1"
       /\ ~ledger[i].successful
       /\ ledger[i].attempted_at + TicksPerHour <= now

\* ------------------------------------------------------------------ C3
\* The last row of the ledger after a step that appended one.
Appended == Len(ledger') = Len(ledger) + 1
LastRow == ledger'[Len(ledger')]

\* C3: with the route's defaults (5 attempts, 1 hour), five failures of a pair
\* inside the window rate-limit it; recording a success for the pair changes
\* neither its failure count nor the block; the block goes only when the
\* clock moves.
C3_SuccessDoesNotLiftBlock ==
  [][\A u \in {S_admin, S_nouser} :
       LET limited == is_rate_limited(u, WindowIP, max_attempts, default_hours)
           count == get_failed_attempts(u, WindowIP, default_hours)
           success == /\ Appended
                      /\ LastRow.username = u
                      /\ LastRow.ip_address = WindowIP
                      /\ LastRow.successful
       IN /\ Cardinality(RecentFailureRows(u, WindowIP, 1)) >= 5 => limited
          /\ success => (count' = count /\ (limited => limited'))
          /\ (limited /\ ~limited') => now' > now]_vars

\* A rate-limited pair whose latest record is a success.
C3_Witness ==
  /\ is_rate_limited(S_admin, WindowIP, max_attempts, default_hours)
  /\ ledger # <<>>
  /\ ledger[Len(ledger)].username = S_admin
  /\ ledger[Len(ledger)].successful

\* ------------------------------------------------------------------ C4
PairRows(username, ip_address) ==
  {i \in DOMAIN ledger :
     ledger[i].username = username /\ ledger[i].ip_address = ip_address}

\* C4: there is no unblock operation, the window slides.  Without a new
\* record for the pair its failure count never grows, and a rate-limited pair
\* with an hour left on the clock becomes unrestricted unless a further record
\* is appended for it.
C4_BlockLiftsAsTimePasses ==
  /\ [][\A u \in {S_admin, S_nouser} :
          PairRows(u, WindowIP)' = PairRows(u, WindowIP)
            => get_failed_attempts(u, WindowIP, default_hours)'
                 <= get_failed_attempts(u, WindowIP, default_hours)]_vars
  /\ \A u \in {S_admin, S_nouser} : \A n \in 0..(WindowLedger + 1) :
       (/\ is_rate_limited(u, WindowIP, max_attempts, default_hours)
        /\ Cardinality(PairRows(u, WindowIP)) = n
        /\ now + default_hours * TicksPerHour <= MaxTime)
         ~> (\/ ~is_rate_limited(u, WindowIP, max_attempts, default_hours)
             \/ Cardinality(PairRows(u, WindowIP)) > n)

\* A pair with five failures on record that is unrestricted again, with
\* nothing recorded for it since the failures.
C4_Witness ==
  /\ ~is_rate_limited(S_admin, WindowIP, max_attempts, default_hours)
  /\ Cardinality({i \in PairRows(S_admin, WindowIP) : ~ledger[i].successful}) >= 5
  /\ \A i \in PairRows(S_admin, WindowIP) : ~ledger[i].successful

\* ------------------------------------------------------ the login route
\* request.remote_addr and the User-Agent header of each client.
ClientAddr(c) == "10.0.0.1"
ClientAgent(c) == "curl"
\* client_ip = request.remote_addr or 'unknown'
client_ip_of(remote_addr) ==
  IF remote_addr = None \/ remote_addr = "" THEN "unknown" ELSE remote_addr

\* The form fields the clients submit to /login.
LoginNames == {S_admin, S_admin_padded, S_nouser}
LoginPasswords == {P_admin, P_wrong, <<>>}

\* The tables after setup_auth.py and create_demo_users.py.
InitDemo ==
  /\ now = 0
  /\ tokens = <<>>
  /\ users = <<WithId(create_user(E_admin, S_admin, P_admin, "salt1"), 1),
               WithId(create_user(E_testuser1, S_testuser1, P_testuser1, "salt2"), 2),
               WithId(create_user(E_testuser2, S_testuser2, P_testuser2, "salt3"), 3)>>
  /\ ledger = <<>>
  /\ session = [c \in ClientIds |-> 0]
  /\ resp = NoResp
  /\ reg = [w \in Procs |-> Idle]

\* flash(error_message or 'Invalid username or password', 'error')
login_failure_flash(error_message) ==
  IF error_message # None THEN error_message ELSE "Invalid username or password"

\* db.session.commit() raising inside log_attempt: nothing in login catches
\* it, the row is not stored and the request ends as a server error.
StoreFailure(lookup) ==
  /\ UNCHANGED <<users, ledger, session>>
  /\ resp' = [outcome |-> "error", flash |-> <<>>, lookup |-> lookup]


\* Mutant: a throttled request is turned away without a row in the ledger.
LoginRequest_throttle_unrecorded(c, form_username, password, store_ok) ==
  LET username == strip(form_username)
      client_ip == client_ip_of(ClientAddr(c))
      user_agent == ClientAgent(c)
  IN /\ session[c] = 0
     /\ Len(ledger) < MaxLedger
     /\ IF ~store_ok
        THEN StoreFailure(~is_rate_limited(username, client_ip,
                                           max_attempts, default_hours))
        ELSE IF is_rate_limited(username, client_ip, max_attempts, default_hours)
        THEN /\ resp' = [outcome |-> "throttled",
                         flash |-> <<"Too many failed login attempts. Please try again later.">>,
                         lookup |-> FALSE]
             /\ UNCHANGED <<users, ledger, session>>
        ELSE LET v == validate_login(username, password)
             IN IF v.is_valid /\ v.user # NoUser
                THEN /\ log_attempt(username, client_ip, TRUE, user_agent)
                     /\ session' = [session EXCEPT ![c] = v.user.id]
                     /\ users' = [users EXCEPT ![v.user.id].last_seen = now]
                     /\ resp' = [outcome |-> "logged_in", flash |-> <<>>,
                                 lookup |-> TRUE]
                ELSE /\ log_attempt(username, client_ip, FALSE, user_agent)
                     /\ resp' = [outcome |-> "invalid",
                                 flash |-> <<login_failure_flash(v.error_message)>>,
                                 lookup |-> TRUE]
                     /\ UNCHANGED <<users, session>>
     /\ UNCHANGED <<now, tokens, reg>>

\* login(), the POST of a client that is not authenticated.  store_ok says
\* whether the ledger's commit goes through: every path of the POST calls
\* log_attempt once, before anything else is written, so a failing commit
\* ends the request on whichever path it was; lookup tells whether that path
\* had gone past the rate limit to validate_login.
LoginRequest(c, form_username, password, store_ok) ==
  LET username == strip(form_username)
      client_ip == client_ip_of(ClientAddr(c))
      user_agent == ClientAgent(c)
  IN /\ session[c] = 0
     /\ Len(ledger) < MaxLedger
     /\ IF ~store_ok
        THEN StoreFailure(~is_rate_limited(username, client_ip,
                                           max_attempts, default_hours))
        ELSE IF is_rate_limited(username, client_ip, max_attempts, default_hours)
        THEN /\ log_attempt(username, client_ip, FALSE, user_agent)
             /\ resp' = [outcome |-> "throttled",
                         flash |-> <<"Too many failed login attempts. Please try again later.">>,
                         lookup |-> FALSE]
             /\ UNCHANGED <<users, session>>
        ELSE LET v == validate_login(username, password)
             IN IF v.is_valid /\ v.user # NoUser
                THEN /\ log_attempt(username, client_ip, TRUE, user_agent)
                     /\ session' = [session EXCEPT ![c] = v.user.id]
                     /\ users' = [users EXCEPT ![v.user.id].last_seen = now]
                     /\ resp' = [outcome |-> "logged_in", flash |-> <<>>,
                                 lookup |-> TRUE]
                ELSE /\ log_attempt(username, client_ip, FALSE, user_agent)
                     /\ resp' = [outcome |-> "invalid",
                                 flash |-> <<login_failure_flash(v.error_message)>>,
                                 lookup |-> TRUE]
                     /\ UNCHANGED <<users, session>>
     /\ UNCHANGED <<now, tokens, reg>>

Login(c, form_username, password) == LoginRequest(c, form_username, password, TRUE)

LoginStoreFails(c, form_username, password) ==
  LoginRequest(c, form_username, password, FALSE)

\* login() of a client that is already authenticated: redirected, nothing
\* is evaluated.
LoginAuthenticated(c) ==
  /\ session[c] # 0
  /\ resp' = [outcome |-> "redirect", flash |-> <<>>, lookup |-> FALSE]
  /\ UNCHANGED <<users, ledger, now, tokens, session, reg>>

\* logout(), behind @login_required.
Logout(c) ==
  /\ session[c] # 0
  /\ session' = [session EXCEPT ![c] = 0]
  /\ resp' = [outcome |-> "logged_out",
              flash |-> <<"You have been logged out successfully.">>,
              lookup |-> FALSE]
  /\ UNCHANGED <<users, ledger, now, tokens, reg>>

Next ==
  \/ \E c \in ClientIds, u \in LoginNames, p \in LoginPasswords : Login(c, u, p)
  \/ \E c \in ClientIds : LoginAuthenticated(c)
  \/ \E c \in ClientIds : Logout(c)
  \/ Tick

\* The login route over a ledger store that accepts every write.
Spec == InitDemo /\ [][Next]_vars

NextFault ==
  \/ Next
  \/ \E c \in ClientIds, u \in LoginNames, p \in LoginPasswords : LoginStoreFails(c, u, p)

\* The login route over a ledger store whose writes may fail.
SpecFault == InitDemo /\ [][NextFault]_vars

\* ------------------------------------------------------------------ C1
\* The row login() is expected to add for a request.
AttemptRow(c, form_username, successful) ==
  [username |-> strip(form_username), ip_address |-> client_ip_of(ClientAddr(c)),
   successful |-> successful, attempted_at |-> now, user_agent |-> ClientAgent(c)]

\* The pair of a request is rate-limited, as is_rate_limited says or as the
\* rows of the ledger say (five failures of the pair inside the last hour).
RequestRateLimited(c, form_username) ==
  \/ is_rate_limited(strip(form_username), client_ip_of(ClientAddr(c)),
                     max_attempts, default_hours)
  \/ Cardinality(RecentFailureRows(strip(form_username),
                                   client_ip_of(ClientAddr(c)), 1)) >= 5

\* C1: a login request for a rate-limited pair is answered with the
\* throttling outcome, appends one failed attempt, and looks up no account
\* and verifies no password, whatever password it carries.
C1_ThrottledBeforeLookup ==
  [][\A c \in ClientIds, u \in LoginNames, p \in LoginPasswords :
       (Login(c, u, p) /\ RequestRateLimited(c, u))
         => /\ resp'.outcome = "throttled"
            /\ ~resp'.lookup
            /\ ledger' = Append(ledger, AttemptRow(c, u, FALSE))
            /\ session' = session
            /\ users' = users]_vars

\* A throttled request: the sixth row of the pair, after five failures.
C1_Witness ==
  /\ resp.outcome = "throttled"
  /\ Len(ledger) >= 6
  /\ ledger[Len(ledger)].username = S_admin
  /\ ~ledger[Len(ledger)].successful
  /\ session["c1"] = 0

\* ------------------------------------------------------------------ C5
\* C5: every evaluated login request appends exactly one row, carrying the
\* username the route read from the form (stripped), the client's address and
\* agent and the time, flagged successful exactly when the request left the
\* client logged in; the rows before it stay as they were.
C5_OneRowPerRequest ==
  [][\A c \in ClientIds, u \in LoginNames, p \in LoginPasswords :
       Login(c, u, p)
         => /\ ledger' = Append(ledger, AttemptRow(c, u, session'[c] # 0))
            /\ (session'[c] # 0) <=> (resp'.outcome = "logged_in")]_vars

\* A ledger holding a successful row for an account and a failed row for a
\* username that matches no account.
C5_Witness ==
  /\ \E i \in DOMAIN ledger : ledger[i].username = S_admin /\ ledger[i].successful
  /\ \E i \in DOMAIN ledger : ledger[i].username = S_nouser /\ ~ledger[i].successful
  /\ session["c1"] # 0

\* ------------------------------------------------------------------ C6
CredentialNames == {S_admin, S_nouser, <<>>}
CredentialPasswords == {P_admin, P_wrong, <<>>}
UnknownName(u) == find_by_username(u) = NoUser
WrongPassword(u, p) ==
  find_by_username(u) # NoUser /\ ~check_password(find_by_username(u), p)
\* What a client whose pair is not rate-limited is shown when login fails.
FailureFlash(u, p) == login_failure_flash(validate_login(u, p).error_message)

\* C6 as stated: for every choice of usernames and passwords, a login with an
\* unknown username and a login with an existing username and a wrong
\* password fail with the identical message.
C6_SameMessageForEveryInput ==
  \A u1 \in CredentialNames, u2 \in CredentialNames :
    \A p1 \in CredentialPasswords, p2 \in CredentialPasswords :
      (UnknownName(u1) /\ WrongPassword(u2, p2))
        => /\ ~validate_login(u1, p1).is_valid
           /\ ~validate_login(u2, p2).is_valid
           /\ FailureFlash(u1, p1) = FailureFlash(u2, p2)

\* C6 as amended: the two failures show the identical message whenever the
\* usernames and passwords are not empty; with an empty username or password
\* the message is the "required" one, whether or not the account exists.
C6_SameMessageForNonEmptyInput ==
  /\ \A u1 \in CredentialNames, u2 \in CredentialNames :
       \A p1 \in CredentialPasswords, p2 \in CredentialPasswords :
         (/\ UnknownName(u1) /\ WrongPassword(u2, p2)
          /\ u1 # <<>> /\ p1 # <<>> /\ p2 # <<>>)
           => /\ ~validate_login(u1, p1).is_valid
              /\ ~validate_login(u2, p2).is_valid
              /\ FailureFlash(u1, p1) = FailureFlash(u2, p2)
  /\ \A u \in CredentialNames, p \in CredentialPasswords :
       (u = <<>> \/ p = <<>>)
         => FailureFlash(u, p) = "Username and password are required"

\* Both failures have been answered: a failed row for the account, then the
\* generic message for a username that matches no account.
C6_Witness ==
  /\ resp.outcome = "invalid"
  /\ resp.flash = <<FailureFlash(S_admin, P_wrong)>>
  /\ ledger # <<>>
  /\ ledger[Len(ledger)].username = S_nouser
  /\ \E i \in DOMAIN ledger : ledger[i].username = S_admin /\ ~ledger[i].successful

\* ------------------------------------------------------------------ C9
\* C9: the ledger is append-only: every step keeps every existing row, with
\* its username, address, flag, time and agent, at its place.
C9_LedgerAppendOnly ==
  [][/\ Len(ledger') >= Len(ledger)
     /\ \A i \in DOMAIN ledger : ledger'[i] = ledger[i]]_vars

\* Rows of both outcomes recorded at different times, answered, and a logout
\* since.
C9_Witness ==
  /\ Len(ledger) >= 3
  /\ ledger[1].attempted_at < now
  /\ \E i \in DOMAIN ledger : ledger[i].successful
  /\ \E i \in DOMAIN ledger : ~ledger[i].successful
  /\ session["c1"] = 0

\* ----------------------------------------------------------------- C10
\* C10: when the ledger's write fails while login logs the attempt, the
\* request is still answered with the authentication outcome (logged in,
\* invalid credentials or throttled).
C10_OutcomeDespiteStoreFailure ==
  [][\A c \in ClientIds, u \in LoginNames, p \in LoginPasswords :
       LoginStoreFails(c, u, p)
         => resp'.outcome \in {"logged_in", "invalid", "throttled"}]_vars

\* ------------------------------------------------- AuthValidator (register)
\* [a-zA-Z0-9@#&%!], the class of USERNAME_REGEX and PASSWORD_REGEX
NameChars == Letters \cup Digits \cup {"@", "#", "&", "%", "!"}
\* [a-zA-Z0-9._%+-] and [a-zA-Z0-9.-], the classes of EMAIL_REGEX
LocalChars == Letters \cup Digits \cup {".", "_", "%", "+", "-"}
DomainChars == Letters \cup Digits \cup {".", "-"}

\* EMAIL_REGEX.match(s): ^[local]+@[domain]+\.[a-zA-Z]{2,}$
EMAIL_REGEX_match(s) ==
  \E b \in Bodies(s) :
    \E at \in DOMAIN b, dot \in DOMAIN b :
      /\ 1 < at /\ at + 1 < dot /\ dot + 2 <= Len(b)
      /\ b[at] = "@" /\ b[dot] = "."
      /\ AllIn(SubSeq(b, 1, at - 1), LocalChars)
      /\ AllIn(SubSeq(b, at + 1, dot - 1), DomainChars)
      /\ AllIn(SubSeq(b, dot + 1, Len(b)), Letters)

USERNAME_REGEX_match(s) == MatchClassRange(s, NameChars, 3, 40)
PASSWORD_REGEX_match(s) == MatchClassRange(s, NameChars, 6, 40)

\* Mutant: the lookup is made on the username column.
is_email_taken_by_username(email) == find_by_username(email) # NoUser

is_email_taken(email) == find_by_email(email) # NoUser
is_username_taken(username) == find_by_username(username) # NoUser


\* Mutant: a validate_email that reserves the address it accepted, so the
\* same caller asking again is told that the address is held.
validate_email_reserving(email) ==
  IF email = <<>>
  THEN [is_valid |-> FALSE, error_message |-> "Email is required"]
  ELSE IF ~EMAIL_REGEX_match(email)
  THEN [is_valid |-> FALSE, error_message |-> "Invalid email format"]
  ELSE IF \/ is_email_taken(email)
          \/ \E w \in Procs : /\ reg[w].pc = "returned"
                              /\ reg[w].op = "validate_email"
                              /\ reg[w].args = <<email>>
                              /\ reg[w].result.is_valid
  THEN [is_valid |-> FALSE,
        error_message |-> "An account already exists with this email"]
  ELSE [is_valid |-> TRUE, error_message |-> None]

\* AuthValidator.validate_email: (is_valid, error_message)
validate_email(email) ==
  IF email = <<>>
  THEN [is_valid |-> FALSE, error_message |-> "Email is required"]
  ELSE IF ~EMAIL_REGEX_match(email)
  THEN [is_valid |-> FALSE, error_message |-> "Invalid email format"]
  ELSE IF is_email_taken(email)
  THEN [is_valid |-> FALSE,
        error_message |-> "An account already exists with this email"]
  ELSE [is_valid |-> TRUE, error_message |-> None]

\* AuthValidator.validate_username
validate_username(username) ==
  IF username = <<>>
  THEN [is_valid |-> FALSE, error_message |-> "Username is required"]
  ELSE IF Len(username) < 3 \/ Len(username) > 40
  THEN [is_valid |-> FALSE,
        error_message |-> "Username must be between 3-40 characters"]
  ELSE IF ~USERNAME_REGEX_match(username)
  THEN [is_valid |-> FALSE,
        error_message |-> "Username can only contain letters, numbers, and @#&%! characters"]
  ELSE IF is_username_taken(username)
  THEN [is_valid |-> FALSE, error_message |-> "Username is already taken"]
  ELSE [is_valid |-> TRUE, error_message |-> None]

\* AuthValidator.validate_password
validate_password(password) ==
  IF password = <<>>
  THEN [is_valid |-> FALSE, error_message |-> "Password is required"]
  ELSE IF Len(password) < 6 \/ Len(password) > 40
  THEN [is_valid |-> FALSE,
        error_message |-> "Password must be between 6-40 characters"]
  ELSE IF ~PASSWORD_REGEX_match(password)
  THEN [is_valid |-> FALSE,
        error_message |-> "Password can only contain letters, numbers, and @#&%! characters"]
  ELSE [is_valid |-> TRUE, error_message |-> None]

\* errors.append(message) when the validation failed
AppendError(errors, v) ==
  IF v.is_valid THEN errors ELSE Append(errors, v.error_message)

\* Mutant: returns at the first failing check.
validate_registration_first_error(email, username, password, confirm_password) ==
  LET e1 == AppendError(<<>>, validate_email(email))
      e2 == IF e1 # <<>> THEN e1 ELSE AppendError(e1, validate_username(username))
      e3 == IF e2 # <<>> THEN e2 ELSE AppendError(e2, validate_password(password))
      e4 == IF e3 = <<>> /\ password # confirm_password
            THEN Append(e3, "Passwords do not match") ELSE e3
  IN [is_valid |-> (Len(e4) = 0), errors |-> e4]

\* Mutant: checks the password and its confirmation before email and username.
validate_registration_password_first(email, username, password, confirm_password) ==
  LET e1 == AppendError(<<>>, validate_password(password))
      e2 == IF password # confirm_password
            THEN Append(e1, "Passwords do not match") ELSE e1
      e3 == AppendError(e2, validate_email(email))
      e4 == AppendError(e3, validate_username(username))
  IN [is_valid |-> (Len(e4) = 0), errors |-> e4]

\* AuthValidator.validate_registration, called with a confirmation:
\* (is_valid, errors), every failing reason in the order email, username,
\* password, confirmation.
validate_registration(email, username, password, confirm_password) ==
  LET e1 == AppendError(<<>>, validate_email(email))
      e2 == AppendError(e1, validate_username(username))
      e3 == AppendError(e2, validate_password(password))
      e4 == IF password # confirm_password
            THEN Append(e3, "Passwords do not match") ELSE e3
  IN [is_valid |-> (Len(e4) = 0), errors |-> e4]

\* ------------------------------------------- forum/auth.py (edit_profile)
\* Mutant: the exclusion is never applied.
Excluding_nobody(exclude_user_id) == DOMAIN users

\* The rows a query is left with after .filter(User.id != exclude_user_id);
\* `if exclude_user_id:` skips the filter for None and for 0.
Excluding(exclude_user_id) ==
  IF exclude_user_id # 0
  THEN {i \in DOMAIN users : users[i].id # exclude_user_id}
  ELSE DOMAIN users

\* forum/auth.py validate_email(email, exclude_user_id)
auth_validate_email(email, exclude_user_id) ==
  IF email = <<>> \/ ~EMAIL_REGEX_match(email)
  THEN [is_valid |-> FALSE, error_message |-> "Invalid email format"]
  ELSE IF \E i \in Excluding(exclude_user_id) : users[i].email = email
  THEN [is_valid |-> FALSE, error_message |-> "Email already exists"]
  ELSE [is_valid |-> TRUE, error_message |-> None]

\* forum/auth.py validate_username(username, exclude_user_id)
auth_validate_username(username, exclude_user_id) ==
  IF username = <<>> \/ ~USERNAME_REGEX_match(username)
  THEN [is_valid |-> FALSE,
        error_message |-> "Username must be 3-40 characters with letters, numbers, and @#&%!"]
  ELSE IF \E i \in Excluding(exclude_user_id) : users[i].username = username
  THEN [is_valid |-> FALSE, error_message |-> "Username already taken"]
  ELSE [is_valid |-> TRUE, error_message |-> None]

\* forum/auth.py validate_password(password)
auth_validate_password(password) ==
  IF password = <<>> \/ ~PASSWORD_REGEX_match(password)
  THEN [is_valid |-> FALSE,
        error_message |-> "Password must be 6-40 characters with letters, numbers, and @#&%!"]
  ELSE [is_valid |-> TRUE, error_message |-> None]

\* forum/auth.py validate_registration_form: (is_valid, errors)
validate_registration_form(email, username, password, confirm_password, exclude_user_id) ==
  LET e1 == AppendError(<<>>, auth_validate_email(email, exclude_user_id))
      e2 == AppendError(e1, auth_validate_username(username, exclude_user_id))
      e3 == AppendError(e2, auth_validate_password(password))
      e4 == IF password # confirm_password
            THEN Append(e3, "Passwords do not match") ELSE e3
  IN [is_valid |-> (Len(e4) = 0), errors |-> e4]

\* ------------------------------------------ register and edit_profile
\* Mutant: a table whose username and email columns are not declared unique.
unique_ok_undeclared(table) == TRUE

\* username = db.Column(db.Text, unique=True), email = db.Column(db.Text,
\* unique=True): what the table accepts on commit.
unique_ok(table) ==
  \A i \in DOMAIN table, j \in DOMAIN table :
    i # j => /\ table[i].username # table[j].username
             /\ table[i].email # table[j].email

\* Form values of the registration and profile forms.
E_ann == <<"a","@","b",".","c","o">>
E_cat == <<"c","@","d",".","i","o">>
\* No top-level label.
E_bad == <<"a","@","b">>
U_bob == <<"b","o","b">>
U_amy == <<"a","m","y">>
\* The same name typed with a blank before it.
U_bob_padded == <<" ">> \o U_bob
\* Too short.
U_ab == <<"a","b">>
P_good == <<"a","b","c","d","e","f">>
P_other == <<"a","b","c","d","e","g">>
FormEmails == {E_ann, E_cat, E_bad}
FormUsernames == {U_bob, U_bob_padded, U_amy, U_ab}
FormPasswords == {P_good}
FormConfirms == {P_good, P_other}
\* The salt generate_password_hash draws.
Salts == {"salt1"}

\* Registrations that passed validation and have not reached their commit.
PendingInserts == Cardinality({w \in Procs : reg[w].pc = "register_insert"})

\* Mutant: the insert is attempted whatever validate_registration returned.
RegisterPost_unvalidated(w, form_email, form_username, password, confirm_password) ==
  /\ reg[w] = Idle
  /\ Len(users) + PendingInserts < MaxUsers
  /\ reg' = [reg EXCEPT ![w] =
               [pc |-> "register_insert", email |-> strip(form_email),
                username |-> strip(form_username), password |-> password]]
  /\ UNCHANGED <<users, ledger, now, tokens, session, resp>>

\* register(), POST, up to the end of validate_registration: a form with
\* errors is rendered again, a valid one goes on to the insert.
RegisterPost(w, form_email, form_username, password, confirm_password) ==
  LET email == strip(form_email)
      username == strip(form_username)
      v == validate_registration(email, username, password, confirm_password)
  IN /\ reg[w] = Idle
     /\ Len(users) + PendingInserts < MaxUsers
     /\ IF v.is_valid
        THEN /\ reg' = [reg EXCEPT ![w] =
                          [pc |-> "register_insert", email |-> email,
                           username |-> username, password |-> password]]
             /\ UNCHANGED resp
        ELSE /\ resp' = [outcome |-> "register_form", flash |-> v.errors,
                         lookup |-> FALSE]
             /\ UNCHANGED reg
     /\ UNCHANGED <<users, ledger, now, tokens, session>>

\* register(), from AuthUser.create_user to the response: the insert is
\* committed, or the commit raises, is rolled back and reported.
RegisterInsert(w, salt) ==
  /\ reg[w].pc = "register_insert"
  /\ LET user == create_user(reg[w].email, reg[w].username, reg[w].password, salt)
         table == Append(users, WithId(user, Len(users) + 1))
     IN IF unique_ok(table)
        THEN /\ users' = table
             /\ resp' = [outcome |-> "registered",
                         flash |-> <<"Account created successfully! Please log in.">>,
                         lookup |-> FALSE]
        ELSE /\ users' = users
             /\ resp' = [outcome |-> "register_form",
                         flash |-> <<"An error occurred during registration. Please try again.">>,
                         lookup |-> FALSE]
  /\ reg' = [reg EXCEPT ![w] = Idle]
  /\ UNCHANGED <<ledger, now, tokens, session>>

\* edit_profile(), POST by the logged-in account uid, up to the end of the
\* two validations.
EditPost(w, uid, form_email, form_username) ==
  LET email == strip(form_email)
      username == strip(form_username)
      errors == AppendError(AppendError(<<>>, auth_validate_email(email, uid)),
                            auth_validate_username(username, uid))
  IN /\ reg[w] = Idle
     /\ uid \in DOMAIN users
     /\ IF errors = <<>>
        THEN /\ reg' = [reg EXCEPT ![w] =
                          [pc |-> "edit_commit", uid |-> uid, email |-> email,
                           username |-> username]]
             /\ UNCHANGED resp
        ELSE /\ resp' = [outcome |-> "edit_form", flash |-> errors,
                         lookup |-> FALSE]
             /\ UNCHANGED reg
     /\ UNCHANGED <<users, ledger, now, tokens, session>>

\* edit_profile(), the update and its commit.
EditCommit(w) ==
  /\ reg[w].pc = "edit_commit"
  /\ LET table == [users EXCEPT ![reg[w].uid].email = reg[w].email,
                                ![reg[w].uid].username = reg[w].username]
     IN IF unique_ok(table)
        THEN /\ users' = table
             /\ resp' = [outcome |-> "profile_updated",
                         flash |-> <<"Profile updated successfully!">>,
                         lookup |-> FALSE]
        ELSE /\ users' = users
             /\ resp' = [outcome |-> "edit_form",
                         flash |-> <<"Database error. Please try again.">>,
                         lookup |-> FALSE]
  /\ reg' = [reg EXCEPT ![w] = Idle]
  /\ UNCHANGED <<ledger, now, tokens, session>>

\* db.create_all() on an empty database: no accounts yet.
InitReg ==
  /\ users = <<>>
  /\ ledger = <<>>
  /\ now = 0
  /\ tokens = <<>>
  /\ session = [c \in ClientIds |-> 0]
  /\ resp = NoResp
  /\ reg = [w \in Procs |-> Idle]

NextReg ==
  \/ \E w \in Procs, e \in FormEmails, u \in FormUsernames,
        p \in FormPasswords, cp \in FormConfirms : RegisterPost(w, e, u, p, cp)
  \/ \E w \in Procs, salt \in Salts : RegisterInsert(w, salt)
  \/ \E w \in Procs, uid \in 1..MaxUsers, e \in FormEmails, u \in FormUsernames :
       EditPost(w, uid, e, u)
  \/ \E w \in Procs : EditCommit(w)

\* Two workers serving registrations and profile edits side by side.
SpecReg == InitReg /\ [][NextReg]_vars

\* ------------------------------------------------------------------ C7
\* C7: in every reachable state of the account store, under any interleaving
\* of registrations and profile edits, no two accounts share a username and
\* no two accounts share an email.
C7_UsernameAndEmailUnique ==
  \A i \in DOMAIN users, j \in DOMAIN users :
    i # j => /\ users[i].username # users[j].username
             /\ users[i].email # users[j].email

\* Two registrations of one username had both passed validation; the first
\* is stored and the second has just been turned down by the table.
C7_Witness ==
  /\ Len(users) = 1
  /\ users[1].username = U_bob
  /\ resp.outcome = "register_form"
  /\ resp.flash = <<"An error occurred during registration. Please try again.">>
  /\ \A w \in Procs : reg[w] = Idle

\* ------------------------------------------------------------------ C8
\* The insert a worker is about to commit is one the table turns down.
InsertRejected(w, salt) ==
  ~unique_ok(Append(users,
       WithId(create_user(reg[w].email, reg[w].username, reg[w].password, salt),
              Len(users) + 1)))

\* C8: a registration that passed validation and whose insert the store
\* rejects as a duplicate rolls back, creates no account, and reports the
\* conflict message the validator gives for the taken username or email.
C8_RejectedInsertReportsConflict ==
  [][\A w \in Procs, salt \in Salts :
       (RegisterInsert(w, salt) /\ InsertRejected(w, salt))
         => /\ users' = users
            /\ resp'.flash # <<>>
            /\ resp'.flash =
                 validate_registration(reg[w].email, reg[w].username,
                                       reg[w].password, reg[w].password).errors]_vars

\* ------------------------------------------- login requests side by side
\* Login requests served by separate threads or workers: each runs login()
\* once, from a client that is not logged in, and the others may run between
\* its is_rate_limited query and its log_attempt commit.
RaceRequests == 1..MaxRequests
RaceNames == {S_admin}
RacePasswords == {P_wrong, P_admin}
RaceIP == "10.0.0.1"

\* The response of a finished request, kept with the request.
Done(outcome, username, ip_address) ==
  [pc |-> "done", outcome |-> outcome, username |-> username,
   ip_address |-> ip_address, at |-> now]

\* login(), POST, up to the rate-limit check: a rate-limited request logs a
\* failed attempt and is answered at once, any other goes on to validate_login.
LoginCheck(r, form_username, password) ==
  LET username == strip(form_username)
      client_ip == client_ip_of(RaceIP)
  IN /\ reg[r].pc = "start"
     /\ IF is_rate_limited(username, client_ip, max_attempts, default_hours)
        THEN /\ log_attempt(username, client_ip, FALSE, "curl")
             /\ resp' = [outcome |-> "throttled",
                         flash |-> <<"Too many failed login attempts. Please try again later.">>,
                         lookup |-> FALSE]
             /\ reg' = [reg EXCEPT ![r] = Done("throttled", username, client_ip)]
        ELSE /\ reg' = [reg EXCEPT ![r] =
                          [pc |-> "checked", username |-> username,
                           password |-> password, ip_address |-> client_ip]]
             /\ UNCHANGED <<ledger, resp>>
     /\ UNCHANGED <<users, now, tokens, session>>

\* login(), from validate_login to the response.
LoginVerify(r) ==
  /\ reg[r].pc = "checked"
  /\ LET v == validate_login(reg[r].username, reg[r].password)
     IN IF v.is_valid /\ v.user # NoUser
        THEN /\ log_attempt(reg[r].username, reg[r].ip_address, TRUE, "curl")
             /\ session' = [session EXCEPT ![r] = v.user.id]
             /\ users' = [users EXCEPT ![v.user.id].last_seen = now]
             /\ resp' = [outcome |-> "logged_in", flash |-> <<>>, lookup |-> TRUE]
             /\ reg' = [reg EXCEPT ![r] =
                          Done("logged_in", reg[r].username, reg[r].ip_address)]
        ELSE /\ log_attempt(reg[r].username, reg[r].ip_address, FALSE, "curl")
             /\ resp' = [outcome |-> "invalid",
                         flash |-> <<login_failure_flash(v.error_message)>>,
                         lookup |-> TRUE]
             /\ reg' = [reg EXCEPT ![r] =
                          Done("invalid", reg[r].username, reg[r].ip_address)]
             /\ UNCHANGED <<users, session>>
  /\ UNCHANGED <<now, tokens>>

\* The demo accounts, an empty ledger and the requests not yet handled, each
\* with a session of its own.
InitRace ==
  /\ now = 0
  /\ tokens = <<>>
  /\ users = <<WithId(create_user(E_admin, S_admin, P_admin, "salt1"), 1),
               WithId(create_user(E_testuser1, S_testuser1, P_testuser1, "salt2"), 2),
               WithId(create_user(E_testuser2, S_testuser2, P_testuser2, "salt3"), 3)>>
  /\ ledger = <<>>
  /\ session = [r \in RaceRequests |-> 0]
  /\ resp = NoResp
  /\ reg = [r \in RaceRequests |-> [pc |-> "start"]]

NextRace ==
  \/ \E r \in RaceRequests, u \in RaceNames, p \in RacePasswords : LoginCheck(r, u, p)
  \/ \E r \in RaceRequests : LoginVerify(r)
  \/ Tick

SpecRace == InitRace /\ [][NextRace]_vars

\* ----------------------------------------------------------------- C11
\* The requests of a pair that reached password verification and failed
\* inside the trailing window of hours.
VerifiedAndFailed(username, ip_address, hours) ==
  {r \in RaceRequests :
     /\ reg[r].pc = "done"
     /\ reg[r].outcome = "invalid"
     /\ reg[r].username = username
     /\ reg[r].ip_address = ip_address
     /\ reg[r].at > now - hours * TicksPerHour}

\* C11: under every interleaving of concurrent login requests for one
\* (username, address) pair, at most max_attempts requests of the pair reach
\* password verification and fail within a trailing window.
C11_AtMostMaxAttemptsVerified ==
  \A u \in RaceNames :
    Cardinality(VerifiedAndFailed(u, RaceIP, default_hours)) <= max_attempts

\* -------------------------------------------- the validators, called freely
\* The account store after create_demo_users.py.
DemoUsers ==
  <<WithId(create_user(E_admin, S_admin, P_admin, "salt1"), 1),
    WithId(create_user(E_testuser1, S_testuser1, P_testuser1, "salt2"), 2),
    WithId(create_user(E_testuser2, S_testuser2, P_testuser2, "salt3"), 3)>>

\* Candidate strings handed to the validators.
Rep(c, n) == [i \in 1..n |-> c]
U_nl == U_bob \o <<"\n">>
U_ab_nl == U_ab \o <<"\n">>
U_space == <<"b","o"," ","b">>
U_dash == <<"b","o","-","b">>
U_mixed == <<"B","0","b","@","#","&","%","!">>
U_len40 == Rep("x", 40)
U_len41 == Rep("x", 41)
P_short == <<"a","b","c","d","e">>
P_nl == P_good \o <<"\n">>
P_short_nl == P_short \o <<"\n">>
P_space == <<"a","b","c"," ","d","e","f">>
P_mixed == <<"A","b","c","1","2","3","@","#","&","%","!">>
P_len40 == Rep("y", 40)
P_len41 == Rep("y", 41)
E_nl == E_ann \o <<"\n">>
E_nolocal == <<"@","b",".","c","o">>
E_nodomain == <<"a","@",".","c","o">>
E_tld1 == <<"a","@","b",".","c">>
E_tld_digit == <<"a","@","b",".","c","0">>
E_two_at == <<"a","@","@","b",".","c","o">>
E_space == <<"a"," ","b","@","c",".","i","o">>
E_rich == <<"a",".","b","_","%","+","-","c","@","d","-","e",".","f",".","i","o">>
E_noat == <<"a","b",".","c","o">>

CandidateUsernames ==
  {<<>>, U_ab, U_bob, U_amy, S_admin, U_nl, U_ab_nl, U_space, U_dash, U_mixed,
   U_len40, U_len41}
CandidatePasswords ==
  {<<>>, P_short, P_good, P_nl, P_short_nl, P_space, P_mixed, P_len40, P_len41,
   P_admin}
CandidateEmails ==
  {<<>>, E_ann, E_bad, E_nl, E_nolocal, E_nodomain, E_tld1, E_tld_digit,
   E_two_at, E_space, E_rich, E_noat, E_admin}
\* The forms handed to validate_registration.
RegistrationEmails == {<<>>, E_ann, E_bad, E_admin}
RegistrationUsernames == {U_bob, U_ab, S_admin, U_space, U_len40 \o <<"\n">>}
RegistrationPasswords == {P_good, P_short, P_space}
RegistrationConfirms == {P_good, P_short}

\* The worker that calls the validators, and what a call left with it.
Caller == "w1"
Returned(op, args, result) ==
  [pc |-> "returned", op |-> op, args |-> args, result |-> result]

CallValidateEmail(email) ==
  /\ reg' = [reg EXCEPT ![Caller] =
               Returned("validate_email", <<email>>, validate_email(email))]
  /\ UNCHANGED <<users, ledger, now, tokens, session, resp>>

CallValidateUsername(username) ==
  /\ reg' = [reg EXCEPT ![Caller] =
               Returned("validate_username", <<username>>, validate_username(username))]
  /\ UNCHANGED <<users, ledger, now, tokens, session, resp>>

CallValidatePassword(password) ==
  /\ reg' = [reg EXCEPT ![Caller] =
               Returned("validate_password", <<password>>, validate_password(password))]
  /\ UNCHANGED <<users, ledger, now, tokens, session, resp>>

CallValidateRegistration(email, username, password, confirm_password) ==
  /\ reg' = [reg EXCEPT ![Caller] =
               Returned("validate_registration",
                        <<email, username, password, confirm_password>>,
                        validate_registration(email, username, password,
                                              confirm_password))]
  /\ UNCHANGED <<users, ledger, now, tokens, session, resp>>

\* Mutant: a validate_login that logs the attempt itself.
CallValidateLogin_logging(username, password) ==
  /\ reg' = [reg EXCEPT ![Caller] =
               Returned("validate_login", <<username, password>>,
                        validate_login(username, password))]
  /\ log_attempt(username, "unknown", validate_login(username, password).is_valid, None)
  /\ UNCHANGED <<users, now, tokens, session, resp>>

CallValidateLogin(username, password) ==
  /\ reg' = [reg EXCEPT ![Caller] =
               Returned("validate_login", <<username, password>>,
                        validate_login(username, password))]
  /\ UNCHANGED <<users, ledger, now, tokens, session, resp>>


\* forum/auth.py validate_email called without an exclusion id
CallAuthValidateEmail(email) ==
  /\ reg' = [reg EXCEPT ![Caller] =
               Returned("auth.validate_email", <<email>>,
                        auth_validate_email(email, 0))]
  /\ UNCHANGED <<users, ledger, now, tokens, session, resp>>


\* forum/auth.py validate_registration_form called without an exclusion id
CallValidateRegistrationForm(email, username, password, confirm_password) ==
  /\ reg' = [reg EXCEPT ![Caller] =
               Returned("validate_registration_form",
                        <<email, username, password, confirm_password>>,
                        validate_registration_form(email, username, password,
                                                   confirm_password, 0))]
  /\ UNCHANGED <<users, ledger, now, tokens, session, resp>>

\* An empty store (db.create_all()) or the demo accounts.
InitValidate ==
  /\ now = 0
  /\ tokens = <<>>
  /\ users \in {<<>>, DemoUsers}
  /\ ledger = <<>>
  /\ session = [c \in ClientIds |-> 0]
  /\ resp = NoResp
  /\ reg = [w \in Procs |-> Idle]

NextValidate ==
  \/ \E e \in CandidateEmails : CallValidateEmail(e)
  \/ \E e \in CandidateEmails : CallAuthValidateEmail(e)
  \/ \E u \in CandidateUsernames : CallValidateUsername(u)
  \/ \E p \in CandidatePasswords : CallValidatePassword(p)
  \/ \E e \in RegistrationEmails, u \in RegistrationUsernames,
        p \in RegistrationPasswords, cp \in RegistrationConfirms :
       CallValidateRegistration(e, u, p, cp)
  \/ \E e \in RegistrationEmails, u \in RegistrationUsernames,
        p \in RegistrationPasswords, cp \in RegistrationConfirms :
       CallValidateRegistrationForm(e, u, p, cp)
  \/ \E u \in LoginNames, p \in LoginPasswords : CallValidateLogin(u, p)

SpecValidate == InitValidate /\ [][NextValidate]_vars

\* ----------------------------------------------------------------- C12
\* The call the validators' caller has just got back from.
LastCall == reg[Caller]
IsCall(op) == LastCall.pc = "returned" /\ LastCall.op = op
Range(seq) == {seq[i] : i \in DOMAIN seq}
\* The reason a single check gives, if it fails.
Reason(v) == IF v.is_valid THEN {} ELSE {v.error_message}
\* The reasons the four checks of a registration form give on their own.
FailingReasons(email, username, password, confirm_password) ==
  Reason(validate_email(email)) \cup Reason(validate_username(username))
    \cup Reason(validate_password(password))
    \cup (IF password # confirm_password THEN {"Passwords do not match"} ELSE {})

EmailReasons ==
  {"Email is required", "Invalid email format",
   "An account already exists with this email"}
UsernameReasons ==
  {"Username is required", "Username must be between 3-40 characters",
   "Username can only contain letters, numbers, and @#&%! characters",
   "Username is already taken"}
PasswordReasons ==
  {"Password is required", "Password must be between 6-40 characters",
   "Password can only contain letters, numbers, and @#&%! characters"}
\* The place of a reason's check in the order email, username, password,
\* confirmation.
ReasonRank(m) ==
  IF m \in EmailReasons THEN 1
  ELSE IF m \in UsernameReasons THEN 2
  ELSE IF m \in PasswordReasons THEN 3
  ELSE IF m = "Passwords do not match" THEN 4
  ELSE 0

\* C13: the error list of validate_registration is ordered: email reasons
\* before username reasons before password reasons before the mismatch.
C13_ErrorsInFixedOrder ==
  IsCall("validate_registration") =>
    LET errors == LastCall.result.errors
    IN /\ \A i \in DOMAIN errors : ReasonRank(errors[i]) # 0
       /\ \A i \in DOMAIN errors, j \in DOMAIN errors :
            i < j => ReasonRank(errors[i]) < ReasonRank(errors[j])

\* A form violating all four checks came back with four reasons.
C13_Witness ==
  /\ IsCall("validate_registration")
  /\ users # <<>>
  /\ LastCall.args = <<E_admin, S_admin, P_short, P_good>>
  /\ Len(LastCall.result.errors) = 4

\* ----------------------------------------------------------------- C14
\* Length 3 to 40 over A-Z, a-z, 0-9, @ # & % !
UsernameWellFormed(s) == Len(s) >= 3 /\ Len(s) <= 40 /\ AllIn(s, NameChars)
UsernameFormatReasons == UsernameReasons \ {"Username is already taken"}

\* C14: validate_username rejects with a format reason every string shorter
\* than 3 or longer than 40 characters or holding a character outside the
\* alphabet; a string of length 3 to 40 over the alphabet passes the format
\* check, so that it can only fail as already taken.
C14_UsernameFormat ==
  IsCall("validate_username") =>
    LET u == LastCall.args[1]
        r == LastCall.result
    IN IF UsernameWellFormed(u)
       THEN r.is_valid \/ r.error_message = "Username is already taken"
       ELSE ~r.is_valid /\ r.error_message \in UsernameFormatReasons

\* ----------------------------------------------------------------- C15
PasswordWellFormed(s) == Len(s) >= 6 /\ Len(s) <= 40 /\ AllIn(s, NameChars)

\* C15: validate_password returns valid exactly for the passwords of length
\* 6 to 40 over A-Z, a-z, 0-9, @ # & % !, whatever the account store holds.
C15_PasswordFormat ==
  IsCall("validate_password") =>
    (LastCall.result.is_valid <=> PasswordWellFormed(LastCall.args[1]))

\* ----------------------------------------------------------------- C16
\* local-part@domain.tld: a non-empty local part of letters, digits and
\* . _ % + -, a non-empty domain of letters, digits, . and -, a dot and a
\* final label of 2 or more letters.
EmailWellFormed(s) ==
  \E at \in DOMAIN s, dot \in DOMAIN s :
    /\ 1 < at /\ at + 1 < dot /\ dot + 2 <= Len(s)
    /\ s[at] = "@" /\ s[dot] = "."
    /\ AllIn(SubSeq(s, 1, at - 1), LocalChars)
    /\ AllIn(SubSeq(s, at + 1, dot - 1), DomainChars)
    /\ AllIn(SubSeq(s, dot + 1, Len(s)), Letters)
EmailFormatReasons == EmailReasons \ {"An account already exists with this email"}

\* C16: validate_email rejects with a format reason every candidate that is
\* empty or not of the shape local-part@domain.tld; a candidate of that shape
\* can only fail because an account already holds the email.
C16_EmailFormat ==
  IsCall("validate_email") =>
    LET e == LastCall.args[1]
        r == LastCall.result
    IN IF EmailWellFormed(e)
       THEN r.is_valid \/ r.error_message = "An account already exists with this email"
       ELSE ~r.is_valid /\ r.error_message \in EmailFormatReasons

\* ----------------------------------------------------------------- C17
FormEmailsStripped == {strip(e) : e \in FormEmails}
FormUsernamesStripped == {strip(u) : u \in FormUsernames}
HeldByOther(field, value, i) ==
  \E j \in DOMAIN users : users[j].id # i /\ users[j][field] = value

\* C17: validate_email(e, exclude=i) and validate_username(u, exclude=i)
\* report no conflict when account i alone holds the value and a conflict
\* when an account other than i holds it; a profile edit that re-submits the
\* holder's own email and username goes through, and one that takes another
\* account's email or username is refused and changes no account.
C17_ExcludeOwnAccount ==
  [][/\ \A i \in DOMAIN users :
          /\ auth_validate_email(users[i].email, users[i].id).is_valid
          /\ auth_validate_username(users[i].username, users[i].id).is_valid
          /\ \A e \in FormEmailsStripped :
               HeldByOther("email", e, users[i].id)
                 => auth_validate_email(e, users[i].id).error_message
                      = "Email already exists"
          /\ \A u \in FormUsernamesStripped :
               HeldByOther("username", u, users[i].id)
                 => auth_validate_username(u, users[i].id).error_message
                      = "Username already taken"
     /\ \A w \in Procs, uid \in 1..MaxUsers, e \in FormEmails, u \in FormUsernames :
          EditPost(w, uid, e, u) =>
            /\ (strip(e) = users[uid].email /\ strip(u) = users[uid].username)
                 => reg'[w].pc = "edit_commit"
            /\ (HeldByOther("email", strip(e), uid)
                  \/ HeldByOther("username", strip(u), uid))
                 => /\ resp'.outcome = "edit_form"
                    /\ reg' = reg
                    /\ users' = users
     /\ \A w \in Procs :
          (/\ EditCommit(w)
           /\ reg[w].email = users[reg[w].uid].email
           /\ reg[w].username = users[reg[w].uid].username)
            => resp'.outcome = "profile_updated" /\ users' = users]_vars

\* Two accounts; one holder's edit re-submitting its own email and username
\* has passed validation, after an edit reaching for the other account's
\* email was refused.
C17_Witness ==
  /\ Len(users) = 2
  /\ reg["w1"].pc = "edit_commit"
  /\ reg["w1"].email = users[reg["w1"].uid].email
  /\ reg["w1"].username = users[reg["w1"].uid].username
  /\ resp.outcome = "edit_form"
  /\ resp.flash = <<"Email already exists">>

\* ----------------------------------------------------------------- C18
EmailHeld(e) == \E i \in DOMAIN users : users[i].email = e
UsernameHeld(u) == \E i \in DOMAIN users : users[i].username = u
\* A registration POST using an email or a username that an account holds is
\* turned down with the conflict reason, and nothing is stored or queued.
HeldValueRefused ==
  \A w \in Procs, e \in FormEmails, u \in FormUsernames,
     p \in FormPasswords, cp \in FormConfirms :
    RegisterPost(w, e, u, p, cp) =>
      /\ EmailHeld(strip(e))
           => /\ resp'.outcome = "register_form"
              /\ "An account already exists with this email" \in Range(resp'.flash)
              /\ users' = users /\ reg' = reg
      /\ UsernameHeld(strip(u))
           => /\ resp'.outcome = "register_form"
              /\ "Username is already taken" \in Range(resp'.flash)
              /\ users' = users /\ reg' = reg

\* C18 as stated: after a registration with email e has succeeded, every
\* later registration with e fails with the email conflict and creates no
\* account, and the same for a username: an email or username an account
\* got stays held from then on, and a registration using a held one fails.
C18_RegisteredStaysRefused ==
  [][/\ \A e \in FormEmailsStripped :
          EmailHeld(e) => (\E i \in DOMAIN users' : users'[i].email = e)
     /\ \A u \in FormUsernamesStripped :
          UsernameHeld(u) => (\E i \in DOMAIN users' : users'[i].username = u)
     /\ HeldValueRefused]_vars

\* C18 as amended: a registration that uses an email or a username which an
\* account holds at that time fails with the conflict error of that field
\* and creates no account.
C18_HeldValueRefused == [][HeldValueRefused]_vars

\* An account holds a@b.co, and a later registration with that email and
\* another username has been turned down with the email conflict alone.
C18_Witness ==
  /\ Len(users) = 1
  /\ users[1].email = E_ann
  /\ users[1].username = U_bob
  /\ resp.outcome = "register_form"
  /\ resp.flash = <<"An account already exists with this email">>
  /\ \A w \in Procs : reg[w] = Idle

\* ----------------------------------------------------------------- C19
\* C19: register validates before it persists anything: a registration POST
\* whose validation reports an error leaves the account store as it was and
\* goes no further, and an account is inserted only for a form that
\* validate_registration had found valid (a form queued for the insert
\* passes the validator's format checks, which no later step can undo).
C19_ValidationBeforePersistence ==
  [][/\ \A w \in Procs, e \in FormEmails, u \in FormUsernames,
           p \in FormPasswords, cp \in FormConfirms :
          RegisterPost(w, e, u, p, cp) =>
            LET v == validate_registration(strip(e), strip(u), p, cp)
            IN /\ users' = users
               /\ ~v.is_valid =>
                    /\ v.errors # <<>>
                    /\ resp'.outcome = "register_form"
                    /\ resp'.flash = v.errors
                    /\ reg' = reg
               /\ reg'[w].pc = "register_insert" => v.is_valid
     /\ Len(users') > Len(users) =>
          \E w \in Procs :
            /\ reg[w].pc = "register_insert"
            /\ EMAIL_REGEX_match(reg[w].email)
            /\ USERNAME_REGEX_match(reg[w].username)
            /\ validate_password(reg[w].password).is_valid
            /\ Len(users') = Len(users) + 1
            /\ users'[Len(users')].email = reg[w].email
            /\ users'[Len(users')].username = reg[w].username
            /\ \A i \in DOMAIN users : users'[i] = users[i]]_vars

\* With one account stored, a form with a too short username and a
\* mismatching confirmation was turned down and the store still holds the
\* one account.
C19_Witness ==
  /\ Len(users) = 1
  /\ resp.outcome = "register_form"
  /\ resp.flash = <<"Username must be between 3-40 characters",
                    "Passwords do not match">>
  /\ \A w \in Procs : reg[w] = Idle

\* ----------------------------------------------------------------- C20
\* C20: validate_email, validate_username, validate_password,
\* validate_registration and validate_login only read the account store:
\* every call leaves the account store and the attempt ledger unchanged.
C20_ValidatorsOnlyRead ==
  [][(reg'[Caller] # reg[Caller] /\ reg'[Caller].pc = "returned")
       => users' = users /\ ledger' = ledger]_vars

\* validate_login has looked up the demo store and returned an account.
C20_Witness ==
  /\ IsCall("validate_login")
  /\ LastCall.args = <<S_admin, P_admin>>
  /\ LastCall.result.is_valid
  /\ LastCall.result.user.id = 1
  /\ users = DemoUsers
  /\ ledger = <<>>

C22_OtherPairsUntouched ==
  [][\A u \in {S_admin, S_nouser}, ip \in IPs :
       (Appended /\ LastRow.username = u /\ LastRow.ip_address = ip)
         => \A u2 \in {S_admin, S_nouser}, ip2 \in IPs :
              (u2 # u \/ ip2 # ip)
                => \A h \in Hours :
                     /\ get_failed_attempts(u2, ip2, h)'
                          = get_failed_attempts(u2, ip2, h)
                     /\ \A m \in 1..(GuardLedger + 1) :
                          is_rate_limited(u2, ip2, m, h)'
                            = is_rate_limited(u2, ip2, m, h)]_vars

\* Three failures of one pair block it at a threshold of three, while the
\* same username from the other address and the other username from the
\* same address have no failure counted.
C22_Witness ==
  /\ is_rate_limited(S_admin, "10.0.0.1", 3, 1)
  /\ get_failed_attempts(S_admin, "10.0.0.2", 1) = 0
  /\ get_failed_attempts(S_nouser, "10.0.0.1", 1) = 0
  /\ ~is_rate_limited(S_admin, "10.0.0.2", 1, 1)
  /\ ~is_rate_limited(S_nouser, "10.0.0.1", 1, 1)

\* ------------------------------------------- administration of accounts
\* user = User.query.get_or_404(user_id): ids are the positions of the rows.
get_or_404(user_id) == IF user_id \in DOMAIN users THEN users[user_id] ELSE NoUser

\* Mutant: toggle-active without the test for the caller's own account.
admin_toggle_user_active_on_self(c, user_id) ==
  /\ session[c] # 0
  /\ LET current_user == users[session[c]]
         user == get_or_404(user_id)
     IN IF ~current_user.admin
        THEN /\ resp' = [outcome |-> "denied", flash |-> <<"Access denied.">>,
                         lookup |-> FALSE]
             /\ UNCHANGED users
        ELSE IF user = NoUser
        THEN /\ resp' = [outcome |-> "not_found", flash |-> <<>>, lookup |-> FALSE]
             /\ UNCHANGED users
        ELSE /\ users' = [users EXCEPT ![user_id].is_active = ~user.is_active]
             /\ resp' = [outcome |-> "toggled_active",
                         flash |-> <<"User ">> \o user.username
                                     \o <<" has been ",
                                         IF ~user.is_active THEN "activated"
                                         ELSE "deactivated", ".">>,
                         lookup |-> FALSE]
  /\ UNCHANGED <<ledger, now, tokens, session, reg>>

\* admin_toggle_user_active(user_id), POST behind @login_required; the
\* caller is the account of the client's session.
admin_toggle_user_active(c, user_id) ==
  /\ session[c] # 0
  /\ LET current_user == users[session[c]]
         user == get_or_404(user_id)
     IN IF ~current_user.admin
        THEN /\ resp' = [outcome |-> "denied", flash |-> <<"Access denied.">>,
                         lookup |-> FALSE]
             /\ UNCHANGED users
        ELSE IF user = NoUser
        THEN /\ resp' = [outcome |-> "not_found", flash |-> <<>>, lookup |-> FALSE]
             /\ UNCHANGED users
        ELSE IF user.id = current_user.id
        THEN /\ resp' = [outcome |-> "refused",
                         flash |-> <<"You cannot deactivate your own account.">>,
                         lookup |-> FALSE]
             /\ UNCHANGED users
        ELSE /\ users' = [users EXCEPT ![user_id].is_active = ~user.is_active]
             /\ resp' = [outcome |-> "toggled_active",
                         flash |-> <<"User ">> \o user.username
                                     \o <<" has been ",
                                         IF ~user.is_active THEN "activated"
                                         ELSE "deactivated", ".">>,
                         lookup |-> FALSE]
  /\ UNCHANGED <<ledger, now, tokens, session, reg>>

\* admin_toggle_user_admin(user_id), POST behind @login_required.
admin_toggle_user_admin(c, user_id) ==
  /\ session[c] # 0
  /\ LET current_user == users[session[c]]
         user == get_or_404(user_id)
     IN IF ~current_user.admin
        THEN /\ resp' = [outcome |-> "denied", flash |-> <<"Access denied.">>,
                         lookup |-> FALSE]
             /\ UNCHANGED users
        ELSE IF user = NoUser
        THEN /\ resp' = [outcome |-> "not_found", flash |-> <<>>, lookup |-> FALSE]
             /\ UNCHANGED users
        ELSE IF user.id = current_user.id
        THEN /\ resp' = [outcome |-> "refused",
                         flash |-> <<"You cannot change your own admin status.">>,
                         lookup |-> FALSE]
             /\ UNCHANGED users
        ELSE /\ users' = [users EXCEPT ![user_id].admin = ~user.admin]
             /\ resp' = [outcome |-> "toggled_admin",
                         flash |-> <<"Admin privileges ",
                                     IF ~user.admin THEN "granted" ELSE "revoked",
                                     " for user ">> \o user.username \o <<".">>,
                         lookup |-> FALSE]
  /\ UNCHANGED <<ledger, now, tokens, session, reg>>

\* AuthUser.activate_user(user): user.is_active = True (email_verified is
\* not a column of the model's rows); commit.
activate_user(uid) ==
  /\ uid \in DOMAIN users
  /\ users' = [users EXCEPT ![uid].is_active = TRUE]
  /\ resp' = [outcome |-> "returned", flash |-> <<"True">>, lookup |-> FALSE]
  /\ UNCHANGED <<ledger, now, tokens, session, reg>>

\* Mutant: deactivation deletes the row.
deactivate_user_deleting(uid) ==
  /\ uid \in DOMAIN users
  /\ users' = SelectSeq(users, LAMBDA row : row.id # uid)
  /\ resp' = [outcome |-> "returned", flash |-> <<"True">>, lookup |-> FALSE]
  /\ UNCHANGED <<ledger, now, tokens, session, reg>>

\* AuthUser.deactivate_user(user): user.is_active = False; commit.
deactivate_user(uid) ==
  /\ uid \in DOMAIN users
  /\ users' = [users EXCEPT ![uid].is_active = FALSE]
  /\ resp' = [outcome |-> "returned", flash |-> <<"True">>, lookup |-> FALSE]
  /\ UNCHANGED <<ledger, now, tokens, session, reg>>

\* UserSettingsManager(user).deactivate_account()
deactivate_account(uid) ==
  /\ uid \in DOMAIN users
  /\ users' = [users EXCEPT ![uid].is_active = FALSE]
  /\ resp' = [outcome |-> "returned", flash |-> <<"Account deactivated successfully">>, lookup |-> FALSE]
  /\ UNCHANGED <<ledger, now, tokens, session, reg>>

\* UserSettingsManager(user).reactivate_account()
reactivate_account(uid) ==
  /\ uid \in DOMAIN users
  /\ users' = [users EXCEPT ![uid].is_active = TRUE]
  /\ resp' = [outcome |-> "returned", flash |-> <<"Account reactivated successfully">>, lookup |-> FALSE]
  /\ UNCHANGED <<ledger, now, tokens, session, reg>>

\* register() served as one step: a client with a session is redirected, a
\* form with errors is rendered again, a valid one is inserted and committed.
Register(c, form_email, form_username, password, confirm_password, salt) ==
  LET email == strip(form_email)
      username == strip(form_username)
      v == validate_registration(email, username, password, confirm_password)
      table == Append(users, WithId(create_user(email, username, password, salt),
                                    Len(users) + 1))
  IN /\ Len(users) < Len(DemoUsers) + MaxUsers
     /\ IF session[c] # 0
        THEN /\ resp' = [outcome |-> "redirect", flash |-> <<>>, lookup |-> FALSE]
             /\ UNCHANGED users
        ELSE IF ~v.is_valid
        THEN /\ resp' = [outcome |-> "register_form", flash |-> v.errors,
                         lookup |-> FALSE]
             /\ UNCHANGED users
        ELSE IF unique_ok(table)
        THEN /\ users' = table
             /\ resp' = [outcome |-> "registered",
                         flash |-> <<"Account created successfully! Please log in.">>,
                         lookup |-> FALSE]
        ELSE /\ resp' = [outcome |-> "register_form",
                         flash |-> <<"An error occurred during registration. Please try again.">>,
                         lookup |-> FALSE]
             /\ UNCHANGED users
     /\ UNCHANGED <<ledger, now, tokens, session, reg>>

\* login() under SpecAdmin, which serves AdminLedger logins.
SessionLogin(c, form_username, password) ==
  /\ Len(ledger) < AdminLedger
  /\ Login(c, form_username, password)

\* An administrator and an ordinary account log in with their passwords;
\* the toggles and the activation methods act on accounts 1 and 2 and on id
\* 9, which is no account; 'Admin', 'ADMIN' and 'bob' are registered
\* meanwhile.
NextAdmin ==
  \/ \E c \in ClientIds : \E k \in {<<S_admin, P_admin>>, <<S_testuser1, P_testuser1>>} :
       SessionLogin(c, k[1], k[2])
  \/ \E c \in ClientIds : Logout(c)
  \/ \E c \in ClientIds, t \in {1, 2, 9} : admin_toggle_user_active(c, t)
  \/ \E c \in ClientIds, t \in {1, 2, 9} : admin_toggle_user_admin(c, t)
  \/ \E t \in {1, 2, 9} : activate_user(t)
  \/ \E t \in {1, 2, 9} : deactivate_user(t)
  \/ \E t \in {1, 2, 9} : deactivate_account(t)
  \/ \E t \in {1, 2, 9} : reactivate_account(t)
  \/ \E c \in ClientIds, salt \in Salts :
       \E f \in {<<E_ann, <<"A","d","m","i","n">> >>,
                 <<E_cat, <<"A","D","M","I","N">> >>,
                 <<E_rich, U_bob>>} :
         Register(c, f[1], f[2], P_good, P_good, salt)

\* Sessions, the admin toggles, the activation methods and registration
\* over the demo accounts.
SpecAdmin == InitDemo /\ [][NextAdmin]_vars

\* ----------------------------------------------------------------- C23
\* C23: accounts are never hard-deleted.  Every step keeps every account of
\* the store at its place with the same identifier, and a step that
\* deactivates an account changes nothing of the store but that account's
\* active flag.
C23_AccountsNeverDeleted ==
  [][/\ \A i \in DOMAIN users :
          /\ i \in DOMAIN users'
          /\ users'[i].id = users[i].id
     /\ \A i \in DOMAIN users :
          (i \in DOMAIN users' /\ users[i].is_active /\ ~users'[i].is_active)
            => users' = [users EXCEPT ![i].is_active = FALSE]]_vars

\* testuser1 has been deactivated through the settings manager after two
\* more accounts were registered; all five accounts are in the store under
\* the identifiers they got.
C23_Witness ==
  /\ Len(users) = 5
  /\ \A i \in DOMAIN users : users[i].id = i
  /\ users[2].username = S_testuser1
  /\ ~users[2].is_active
  /\ resp = [outcome |-> "returned", flash |-> <<"Account deactivated successfully">>, lookup |-> FALSE]

\* ------------------------------------------------- change of password
\* AuthUser.change_password(user, old_password, new_password): whether it
\* went through, and the row it leaves.
change_password(user, old_password, new_password, salt) ==
  IF check_password(user, old_password)
  THEN [ok |-> TRUE,
        user |-> [user EXCEPT !.password_hash = generate_password_hash(new_password, salt)]]
  ELSE [ok |-> FALSE, user |-> user]

\* change_password(), POST behind @login_required.
ChangePassword(c, current_password, new_password, confirm_password, salt) ==
  /\ session[c] # 0
  /\ LET current_user == users[session[c]]
         e1 == IF ~check_password(current_user, current_password)
               THEN <<"Current password is incorrect">> ELSE <<>>
         e2 == AppendError(e1, validate_password(new_password))
         errors == IF new_password # confirm_password
                   THEN Append(e2, "New passwords do not match") ELSE e2
         changed == change_password(current_user, current_password, new_password, salt)
     IN IF errors = <<>> /\ changed.ok
        THEN /\ users' = [users EXCEPT ![current_user.id] = changed.user]
             /\ resp' = [outcome |-> "password_changed",
                         flash |-> <<"Password changed successfully!">>,
                         lookup |-> FALSE]
        ELSE /\ resp' = [outcome |-> "change_password_form",
                         flash |-> IF errors = <<>>
                                   THEN <<"Error changing password. Please try again.">>
                                   ELSE errors,
                         lookup |-> FALSE]
             /\ UNCHANGED users
  /\ UNCHANGED <<ledger, now, tokens, session, reg>>

\* One account from its registration on: bob registers, logs in and out,
\* changes the password, is deactivated and reactivated.
NextRound ==
  \/ \E c \in ClientIds, p \in {P_good, P_other}, salt \in Salts :
       Register(c, E_ann, U_bob, p, p, salt)
  \/ \E c \in ClientIds, p \in {P_good, P_other} : Login(c, U_bob, p)
  \/ \E c \in ClientIds : Logout(c)
  \/ \E c \in ClientIds, salt \in Salts :
       \E cur \in {P_good, P_other}, new \in {P_good, P_other, P_short},
          cp \in {P_good, P_other} :
         ChangePassword(c, cur, new, cp, salt)
  \/ deactivate_account(1)
  \/ reactivate_account(1)

SpecRound == InitReg /\ [][NextRound]_vars

\* ----------------------------------------------------------------- C24
\* C24: register then login round trip.  A successful registration with
\* password p leaves an account that verifies p and no other password; a
\* successful change of password to q leaves one that verifies q and no
\* other, p included; and a login for an active account from a pair that is
\* not rate-limited succeeds exactly with the password the account verifies.
C24_RegisterLoginRoundTrip ==
  [][\A c \in ClientIds, salt \in Salts :
       /\ \A p \in {P_good, P_other} :
            (Register(c, E_ann, U_bob, p, p, salt) /\ resp'.outcome = "registered")
              => \A x \in {P_good, P_other, P_short} :
                   check_password(users'[Len(users')], x) <=> x = p
       /\ \A cur \in {P_good, P_other}, q \in {P_good, P_other, P_short},
             cp \in {P_good, P_other} :
            (ChangePassword(c, cur, q, cp, salt) /\ resp'.outcome = "password_changed")
              => \A x \in {P_good, P_other, P_short} :
                   check_password(users'[session[c]], x) <=> x = q
       /\ \A x \in {P_good, P_other} :
            (/\ Login(c, U_bob, x)
             /\ find_by_username(U_bob) # NoUser
             /\ find_by_username(U_bob).is_active
             /\ ~is_rate_limited(U_bob, client_ip_of(ClientAddr(c)),
                                 max_attempts, default_hours))
              => /\ check_password(find_by_username(U_bob), x)
                      => (resp'.outcome = "logged_in" /\ session'[c] = 1)
                 /\ ~check_password(find_by_username(U_bob), x)
                      => (resp'.outcome = "invalid" /\ session'[c] = 0)]_vars

\* bob has logged in twice, the second time with the other password of the
\* two: the password was changed between the two logins, or the first login
\* happened before the change.
C24_Witness ==
  /\ Len(ledger) = 2
  /\ ledger[1].successful /\ ledger[2].successful
  /\ resp.outcome = "logged_in"
  /\ session["c1"] = 1
  /\ check_password(users[1], P_other)
  /\ ~check_password(users[1], P_good)

\* ----------------------------------------------------------------- C25
\* Whether row i of the ledger arrived while its pair was rate-limited: the
\* count is_rate_limited made of the rows before it, at the time of row i.
ArrivedWhileLimited(i) ==
  Cardinality({j \in 1..(i - 1) :
                 /\ ledger[j].username = ledger[i].username
                 /\ ledger[j].ip_address = ledger[i].ip_address
                 /\ ~ledger[j].successful
                 /\ ledger[j].attempted_at
                      > ledger[i].attempted_at - default_hours * TicksPerHour})
    >= max_attempts

BobDeactivated ==
  /\ Len(users) >= 1
  /\ users[1].username = U_bob
  /\ ~users[1].is_active

\* The row a login request of client c for bob appends when it fails.
BobFailedRow(c) ==
  LoginAttempt(U_bob, client_ip_of(ClientAddr(c)), FALSE, ClientAgent(c))

C27_AdminFlagByName ==
  [][/\ Len(users') > Len(users)
          => /\ Len(users') = Len(users) + 1
             /\ users'[Len(users')].admin
                  <=> lower(users'[Len(users')].username) = S_admin
     /\ \A i \in DOMAIN users :
          (i \in DOMAIN users' /\ users'[i].admin # users[i].admin)
            => \E c \in ClientIds : admin_toggle_user_admin(c, i)]_vars

\* 'Admin' and 'ADMIN' were registered after 'admin': three administrators
\* whose usernames differ in case only.
C27_Witness ==
  /\ Len(users) = 5
  /\ users[1].username = S_admin /\ users[1].admin
  /\ users[4].username = <<"A","d","m","i","n">> /\ users[4].admin
  /\ users[5].username = <<"A","D","M","I","N">> /\ users[5].admin
  /\ resp.outcome = "registered"

\* ----------------------------------------------------------------- C28
\* Whether the caller of client c may toggle a flag of account t: the caller
\* is an administrator and t is another account of the store.
TogglePermitted(c, t) ==
  /\ users[session[c]].admin
  /\ t \in DOMAIN users
  /\ t # session[c]

\* C28: toggle-active and toggle-admin change a flag only when the caller is
\* an administrator and the target another account.  A permitted call flips
\* the one flag of the one target and leaves every other flag and account as
\* it was; a call by a non-administrator, on the caller's own account or on
\* no account changes nothing.
C28_TogglesOnlyByAdminOnOthers ==
  [][\A c \in ClientIds, t \in {1, 2, 9} :
       /\ admin_toggle_user_active(c, t)
            => users' = IF TogglePermitted(c, t)
                        THEN [users EXCEPT ![t].is_active = ~users[t].is_active]
                        ELSE users
       /\ admin_toggle_user_admin(c, t)
            => users' = IF TogglePermitted(c, t)
                        THEN [users EXCEPT ![t].admin = ~users[t].admin]
                        ELSE users]_vars

\* The administrator has made testuser1 an administrator: that one flag is
\* set, testuser1 is still active and the other accounts are as they were.
C28_Witness ==
  /\ session["c1"] = 1
  /\ resp.outcome = "toggled_admin"
  /\ users[2].admin /\ users[2].is_active
  /\ users[1].admin /\ users[1].is_active
  /\ ~users[3].admin /\ users[3].is_active

\* ------------------------------------------------------------ AuthToken
\* AuthToken.__init__: the row create_token adds.  generate_token draws
\* secrets.token_urlsafe(32), a string that no row holds yet (a clash of two
\* draws is not modelled); the id is given by the table.
AuthToken(user_id, token_type, expires_in_hours) ==
  [id |-> Len(tokens) + 1, user_id |-> user_id,
   token |-> <<"tok1", "tok2", "tok3", "tok4">>[Len(tokens) + 1],
   token_type |-> token_type, created_at |-> now,
   expires_at |-> now + expires_in_hours * TicksPerHour, is_used |-> FALSE]

\* AuthToken.is_expired
is_expired(token) == now > token.expires_at

\* AuthToken.is_valid
is_valid(token) == ~token.is_used /\ ~is_expired(token)

\* AuthToken.use_token, on row i of the table
use_token(i) ==
  /\ i \in DOMAIN tokens
  /\ tokens' = [tokens EXCEPT ![i].is_used = TRUE]
  /\ UNCHANGED <<users, ledger, now, session, resp, reg>>

\* Mutant: the earlier tokens of the user and type are left as they are.
create_token_keeping(user_id, token_type, expires_in_hours) ==
  /\ Len(tokens) < MaxTokens
  /\ tokens' = Append(tokens, AuthToken(user_id, token_type, expires_in_hours))
  /\ resp' = [outcome |-> "returned",
              flash |-> <<AuthToken(user_id, token_type, expires_in_hours).token>>,
              lookup |-> FALSE]
  /\ UNCHANGED <<users, ledger, now, session, reg>>

\* AuthToken.create_token: the update of the unused rows of the user and
\* type, the insert and the commit are one transaction.
create_token(user_id, token_type, expires_in_hours) ==
  /\ Len(tokens) < MaxTokens
  /\ tokens' = Append([i \in DOMAIN tokens |->
                         IF /\ tokens[i].user_id = user_id
                            /\ tokens[i].token_type = token_type
                            /\ tokens[i].is_used = FALSE
                         THEN [tokens[i] EXCEPT !.is_used = TRUE]
                         ELSE tokens[i]],
                      AuthToken(user_id, token_type, expires_in_hours))
  /\ resp' = [outcome |-> "returned",
              flash |-> <<AuthToken(user_id, token_type, expires_in_hours).token>>,
              lookup |-> FALSE]
  /\ UNCHANGED <<users, ledger, now, session, reg>>

\* AuthToken.verify_token: token.user of the first row with this string and
\* type if that row is valid, None otherwise.
verify_token(token_string, token_type) ==
  LET found == {i \in DOMAIN tokens : /\ tokens[i].token = token_string
                                      /\ tokens[i].token_type = token_type}
      token == IF found = {} THEN NoUser
               ELSE tokens[CHOOSE i \in found : \A j \in found : i <= j]
      user == IF token # NoUser /\ is_valid(token)
              THEN get_or_404(token.user_id) ELSE NoUser
  IN /\ reg' = [reg EXCEPT ![Caller] =
                  Returned("verify_token", <<token_string, token_type>>, user)]
     /\ UNCHANGED <<users, ledger, now, session, resp, tokens>>

\* Tokens of two types for account 1 and of one type for account 2, expiring
\* at once or after the default of 24 hours.
NextToken ==
  \/ \E k \in {<<1, "password_reset">>, <<1, "email_verification">>,
               <<2, "password_reset">>}, h \in {0, 24} :
       create_token(k[1], k[2], h)
  \/ \E i \in 1..MaxTokens : use_token(i)
  \/ \E s \in {"tok1", "tok2", "nope"},
        ty \in {"password_reset", "email_verification"} : verify_token(s, ty)
  \/ Tick

SpecToken == InitDemo /\ [][NextToken]_vars

\* ----------------------------------------------------------------- C29
\* The valid (unused and unexpired) tokens of a user and type.
ValidTokens(user_id, token_type) ==
  {i \in DOMAIN tokens : /\ tokens[i].user_id = user_id
                         /\ tokens[i].token_type = token_type
                         /\ is_valid(tokens[i])}

\* C29: create_token marks every unused token of the user and type as used
\* and adds one new token, so at most one token per user and type is valid
\* at any time.  verify_token returns the user of a token exactly when a
\* token with that string and type is valid, and leaves the table as it is.
\* A token that is used or expired never becomes valid again.
C29_AtMostOneValidToken ==
  /\ [](\A u \in {1, 2}, ty \in {"password_reset", "email_verification"} :
          Cardinality(ValidTokens(u, ty)) <= 1)
  /\ [][/\ \A i \in DOMAIN tokens :
             /\ i \in DOMAIN tokens'
             /\ tokens'[i].token = tokens[i].token
             /\ ~is_valid(tokens[i]) => ~(is_valid(tokens[i]))'
        /\ \A u \in {1, 2}, ty \in {"password_reset", "email_verification"},
              h \in {0, 24} :
             create_token(u, ty, h)
               => /\ Len(tokens') = Len(tokens) + 1
                  /\ ValidTokens(u, ty)' = {Len(tokens')}
                  /\ \A i \in DOMAIN tokens :
                       (tokens[i].user_id = u /\ tokens[i].token_type = ty)
                         => tokens'[i].is_used
                  /\ \A i \in DOMAIN tokens :
                       (tokens[i].user_id # u \/ tokens[i].token_type # ty)
                         => tokens'[i] = tokens[i]
        /\ \A s \in {"tok1", "tok2", "nope"},
              ty \in {"password_reset", "email_verification"} :
             verify_token(s, ty)
               => /\ tokens' = tokens
                  /\ \A u \in {1, 2} :
                       (reg'[Caller].result # NoUser /\ reg'[Caller].result.id = u)
                         <=> \E i \in ValidTokens(u, ty) : tokens[i].token = s
                  /\ reg'[Caller].result # NoUser
                       => reg'[Caller].result.id \in {1, 2}]_vars

\* Account 1 got two password-reset tokens: the first was marked used when
\* the second was created, the second is valid and verify_token has just
\* returned account 1 for it.
C29_Witness ==
  /\ Len(tokens) = 2
  /\ tokens[1].user_id = 1 /\ tokens[1].token_type = "password_reset"
  /\ tokens[2].user_id = 1 /\ tokens[2].token_type = "password_reset"
  /\ tokens[1].is_used /\ ~is_expired(tokens[1])
  /\ is_valid(tokens[2])
  /\ IsCall("verify_token")
  /\ LastCall.args = <<"tok2", "password_reset">>
  /\ LastCall.result # NoUser
  /\ LastCall.result.id = 1

\* ----------------------------------------------------------------- C30
\* The checks of a registration that a list of errors reports as failed:
\* 1 email, 2 username, 3 password, 4 confirmation, for the messages of
\* either implementation.
FailedChecks(errors) ==
  {ReasonRank(m) : m \in Range(errors) \cap
                     (EmailReasons \cup UsernameReasons \cup PasswordReasons
                        \cup {"Passwords do not match"})}
  \cup {1 : m \in Range(errors) \cap {"Invalid email format", "Email already exists"}}
  \cup {2 : m \in Range(errors) \cap
              {"Username must be 3-40 characters with letters, numbers, and @#&%!",
               "Username already taken"}}
  \cup {3 : m \in Range(errors) \cap
              {"Password must be 6-40 characters with letters, numbers, and @#&%!"}}

SameVerdict(a, b) ==
  /\ a.is_valid = b.is_valid
  /\ FailedChecks(a.errors) = FailedChecks(b.errors)

\* C30: validate_registration_form of forum/auth.py, called without an
\* exclusion id, and AuthValidator.validate_registration, called with a
\* confirmation, agree for every store and every input on whether the
\* registration is valid and on which of the four checks failed.
C30_ImplementationsAgree ==
  /\ IsCall("validate_registration")
       => SameVerdict(LastCall.result,
                      validate_registration_form(LastCall.args[1], LastCall.args[2],
                                                 LastCall.args[3], LastCall.args[4], 0))
  /\ IsCall("validate_registration_form")
       => SameVerdict(LastCall.result,
                      validate_registration(LastCall.args[1], LastCall.args[2],
                                            LastCall.args[3], LastCall.args[4]))

====
